---- MODULE Spec2Model ----
(***************************************************************************)
(* Model of rdfsplitter: the per-file chunking engine (src/src/splitter.rs) *)
(* driven by the run loop of src/src/main.rs, with the encoders of          *)
(* src/src/serialise.rs.  Strings are sequences of one-character strings,   *)
(* so that the encoders' lexical tests on terms are computed, not assumed.  *)
(***************************************************************************)
EXTENDS Integers, Sequences, FiniteSets, TLC

\* ------------------------------------------------------------------ bounds
MaxLen == 4

MaxMixed == 2

MaxChunk == 3

MaxCount == 3

MaxFaults == 1

MaxPre == 1

\* input files of a run over several files
MaxFiles == 2

MaxElems == 2

\* bits of the machine word (usize) in the ceiling division of the run loop
UsizeBits == 4

\* ------------------------------------------------------- program constants
DefaultChunkSize == 10000

IndexWidth == 4

None == "None"

\* usize::MAX
UsizeMax == 2^UsizeBits - 1

\* usize `+` and `-`: the outcomes [panic, overflow, v].  A result outside
\* 0..usize::MAX panics in a build with overflow checks and wraps in a build
\* without them.
UsizeAdd(a, b) ==
  IF a + b <= UsizeMax
    THEN { [panic |-> FALSE, overflow |-> FALSE, v |-> a + b] }
    ELSE { [panic |-> TRUE, overflow |-> TRUE, v |-> 0],
           [panic |-> FALSE, overflow |-> TRUE, v |-> (a + b) % (UsizeMax + 1)] }

UsizeSub(a, b) ==
  IF a >= b
    THEN { [panic |-> FALSE, overflow |-> FALSE, v |-> a - b] }
    ELSE { [panic |-> TRUE, overflow |-> TRUE, v |-> 0],
           [panic |-> FALSE, overflow |-> TRUE, v |-> a - b + UsizeMax + 1] }

\* ------------------------------------------------------------ string model
StartsWith(s, pre) ==
  /\ Len(s) >= Len(pre)
  /\ SubSeq(s, 1, Len(pre)) = pre

EndsWith(s, suf) ==
  /\ Len(s) >= Len(suf)
  /\ SubSeq(s, Len(s) - Len(suf) + 1, Len(s)) = suf

\* positions (1-based) at which pat occurs in s
Occurrences(s, pat) ==
  { i \in 1..(Len(s) - Len(pat) + 1) : SubSeq(s, i, i + Len(pat) - 1) = pat }

Max(S) == CHOOSE x \in S : \A y \in S : y <= x

Min(S) == CHOOSE x \in S : \A y \in S : x <= y

\* str::find / str::rfind: 0 stands for Option::None, otherwise the
\* 1-based position of the first / last occurrence
Find(s, pat) == IF Occurrences(s, pat) = {} THEN 0 ELSE Min(Occurrences(s, pat))

RFind(s, pat) == IF Occurrences(s, pat) = {} THEN 0 ELSE Max(Occurrences(s, pat))

\* str::trim_start_matches(c): drop every leading c
RECURSIVE TrimStartMatches(_, _)
TrimStartMatches(s, c) ==
  IF s # <<>> /\ Head(s) = c THEN TrimStartMatches(Tail(s), c) ELSE s

\* ------------------------------------------------------------------- terms
Quote == "\""

IriTerm(name) == <<"<">> \o name \o <<">">>

BlankTerm(name) == <<"_", ":">> \o name

PlainLit(text) == <<Quote>> \o text \o <<Quote>>

\* OwnedTriple
Triple(s, p, o) == [subject |-> s, predicate |-> p, object |-> o]

\* OwnedQuad
Quad(t, g) == [triple |-> t, graph_name |-> g]

\* Option<T>
Some(x) == [some |-> TRUE, v |-> x]

NoneOpt == [some |-> FALSE, v |-> <<>>]

\* --------------------------------------------------------------- RdfFormat
QuadFormats == {"NQuads", "TriG"}

\* to_lowercase on the extensions the model draws from
ToLowercase(ext) ==
  CASE ext = "NT" -> "nt"
    [] ext = "TTL" -> "ttl"
    [] OTHER -> ext

\* RdfFormat::from_path; None for an unrecognised extension
from_path(ext) ==
  LET e == ToLowercase(ext) IN
  CASE e = "ttl" -> "Turtle"
    [] e = "nt" -> "NTriples"
    [] e \in {"nq", "nquads"} -> "NQuads"
    [] e = "trig" -> "TriG"
    [] e \in {"rdf", "owl", "xml"} -> "RdfXml"
    [] e \in {"jsonld", "json-ld", "json"} -> "JsonLd"
    [] OTHER -> None

\* RdfFormat::extension
extension(fmt) ==
  CASE fmt = "Turtle" -> "ttl"
    [] fmt = "NTriples" -> "nt"
    [] fmt = "NQuads" -> "nq"
    [] fmt = "TriG" -> "trig"
    [] fmt = "RdfXml" -> "rdf"
    [] fmt = "JsonLd" -> "jsonld"

\* ------------------------------------------------------------ path helpers
\* {:04}: at least four decimal digits, zero padded
RECURSIVE Digits(_)
Digits(n) == IF n < 10 THEN <<n>> ELSE Digits(n \div 10) \o <<n % 10>>

RECURSIVE PadLeft(_, _)
PadLeft(d, w) == IF Len(d) >= w THEN d ELSE PadLeft(<<0>> \o d, w)

chunk_path_unpadded(stem, fmt, chunk) ==
  [stem |-> stem, index |-> Digits(chunk), ext |-> extension(fmt)]

\* chunk_path: {stem}_{chunk:04}.{extension} inside opts.output_dir
chunk_path(stem, fmt, chunk) ==
  [stem |-> stem, index |-> PadLeft(Digits(chunk), IndexWidth), ext |-> extension(fmt)]

\* ---------------------------------------------------------------- encoders
Dot == <<".">>

\* write_ntriples: one line "s p o ." per triple, in order
write_ntriples(triples) ==
  [i \in 1..Len(triples) |->
     <<triples[i].subject, triples[i].predicate, triples[i].object, Dot>>]

\* write_nquads: the graph term goes before the period when present
write_nquads(quads) ==
  [i \in 1..Len(quads) |->
     IF quads[i].graph_name.some
       THEN <<quads[i].triple.subject, quads[i].triple.predicate,
              quads[i].triple.object, quads[i].graph_name.v, Dot>>
       ELSE <<quads[i].triple.subject, quads[i].triple.predicate,
              quads[i].triple.object, Dot>>]

write_turtle(triples) == write_ntriples(triples)

write_trig(quads) == write_nquads(quads)

try_strip_angles(s) ==
  IF StartsWith(s, <<"<">>) /\ EndsWith(s, <<">">>)
    THEN Some(SubSeq(s, 2, Len(s) - 1))
    ELSE NoneOpt

strip_angles(s) == IF try_strip_angles(s).some THEN try_strip_angles(s).v ELSE s

\* the (lit, lang) pair, or None
try_lang_literal(s) ==
  LET pos == RFind(s, <<Quote, "@">>)
      t   == TrimStartMatches(s, Quote)
      q   == RFind(t, <<Quote>>)
  IN IF pos = 0 THEN NoneOpt
     ELSE Some([lit  |-> IF q = 0 THEN t ELSE SubSeq(t, 1, q - 1),
                tag  |-> SubSeq(s, pos + 2, Len(s))])

\* the (lit, dt) pair, or None
try_typed_literal(s) ==
  LET pos == Find(s, <<Quote, "^", "^", "<">>)
      t   == TrimStartMatches(s, Quote)
      q   == Find(t, <<Quote>>)
  IN IF pos = 0 THEN NoneOpt
     ELSE Some([lit  |-> IF q = 0 THEN t ELSE SubSeq(t, 1, q - 1),
                tag  |-> SubSeq(s, pos + 4, Len(s) - 1)])

plain_literal(s) ==
  LET t == TrimStartMatches(s, Quote)
      p == RFind(t, <<Quote>>)
  IN IF p = 0 THEN t ELSE SubSeq(t, 1, p - 1)

\* an escaped string is the sequence of the units its characters turn into
XmlEscapeChar(c) ==
  CASE c = "&" -> "&amp;"
    [] c = "<" -> "&lt;"
    [] c = ">" -> "&gt;"
    [] c = Quote -> "&quot;"
    [] OTHER -> c

xml_escape(s) == [i \in 1..Len(s) |-> XmlEscapeChar(s[i])]

JsonEscapeChar(c) ==
  CASE c = "\\" -> "\\\\"
    [] c = Quote -> "\\\""
    [] c = "\n" -> "\\n"
    [] c = "\r" -> "\\r"
    [] c = "\t" -> "\\t"
    [] OTHER -> c

json_escape(s) == [i \in 1..Len(s) |-> JsonEscapeChar(s[i])]

\* write_rdfxml: one rdf:Description block per triple
RdfXmlElement(t) ==
  LET subj == strip_angles(t.subject)
      pred == strip_angles(t.predicate)
  IN IF try_strip_angles(t.object).some
       THEN [about |-> xml_escape(subj), name |-> pred, attr |-> "rdf:resource",
             attrv |-> xml_escape(try_strip_angles(t.object).v), text |-> NoneOpt]
     ELSE IF try_lang_literal(t.object).some
       THEN [about |-> xml_escape(subj), name |-> pred, attr |-> "xml:lang",
             attrv |-> try_lang_literal(t.object).v.tag,
             text |-> Some(xml_escape(try_lang_literal(t.object).v.lit))]
     ELSE IF try_typed_literal(t.object).some
       THEN [about |-> xml_escape(subj), name |-> pred, attr |-> "rdf:datatype",
             attrv |-> xml_escape(try_typed_literal(t.object).v.tag),
             text |-> Some(xml_escape(try_typed_literal(t.object).v.lit))]
     ELSE [about |-> xml_escape(subj), name |-> pred, attr |-> None,
           attrv |-> <<>>, text |-> Some(xml_escape(plain_literal(t.object)))]

write_rdfxml(triples) == [i \in 1..Len(triples) |-> RdfXmlElement(triples[i])]

\* the characters of the model's terms, in byte order (String's Ord); the
\* rdf:type IRI is one unit, in the place of its first character
Alphabet ==
  <<Quote, "&", ".", ":", "<", ">", "@", "^", "_",
    "a", "b", "d", "e", "g",
    "http://www.w3.org/1999/02/22-rdf-syntax-ns#type",
    "n", "o", "p", "s", "t", "v", "x", "y">>

CharCode(c) == CHOOSE i \in 1..Len(Alphabet) : Alphabet[i] = c

RECURSIVE StrLess(_, _)
StrLess(a, b) ==
  IF b = <<>> THEN FALSE
  ELSE IF a = <<>> THEN TRUE
  ELSE IF Head(a) = Head(b) THEN StrLess(Tail(a), Tail(b))
  ELSE CharCode(Head(a)) < CharCode(Head(b))

\* BTreeMap::keys: the keys in ascending order
RECURSIVE SortedKeys(_)
SortedKeys(S) ==
  IF S = {} THEN <<>>
  ELSE LET m == CHOOSE x \in S : \A y \in S \ {x} : StrLess(x, y)
       IN <<m>> \o SortedKeys(S \ {m})

SelectFirstBy(seq, field, key) ==
  LET at == { i \in 1..Len(seq) : seq[i][field] = key }
  IN IF at = {} THEN <<>> ELSE <<seq[Min(at)]>>

\* the elements of seq whose field equals key, in order
RECURSIVE SelectSeqBy(_, _, _)
SelectSeqBy(seq, field, key) ==
  IF seq = <<>> THEN <<>>
  ELSE IF Head(seq)[field] = key
    THEN <<Head(seq)>> \o SelectSeqBy(Tail(seq), field, key)
    ELSE SelectSeqBy(Tail(seq), field, key)

\* ----------------------------------------------------------- JSON values
\* a JSON value: t is its type, s its text (a string's characters, a
\* number's or boolean's token), items its array elements or, for an
\* object, its members [key, val] in document order
JStr(s) == [t |-> "str", s |-> s, items |-> <<>>]

JTok(t, s) == [t |-> t, s |-> s, items |-> <<>>]

JArr(items) == [t |-> "arr", s |-> <<>>, items |-> items]

JObj(members) == [t |-> "obj", s |-> <<>>, items |-> members]

Member(k, v) == [key |-> k, val |-> v]

KId == <<"@", "i", "d">>

KValue == <<"@", "v", "a", "l", "u", "e">>

KLanguage == <<"@", "l", "a", "n", "g", "u", "a", "g", "e">>

KType == <<"@", "t", "y", "p", "e">>

KGraph == <<"@", "g", "r", "a", "p", "h">>

KContext == <<"@", "c", "o", "n", "t", "e", "x", "t">>

\* object_to_jsonld_value: the value object written for an object term;
\* string contents are written escaped, the language tag as it is
object_to_jsonld_value(obj) ==
  IF try_strip_angles(obj).some
    THEN JObj(<<Member(KId, JStr(json_escape(try_strip_angles(obj).v)))>>)
  ELSE IF try_lang_literal(obj).some
    THEN JObj(<<Member(KValue, JStr(json_escape(try_lang_literal(obj).v.lit))),
                Member(KLanguage, JStr(try_lang_literal(obj).v.tag))>>)
  ELSE IF try_typed_literal(obj).some
    THEN JObj(<<Member(KValue, JStr(json_escape(try_typed_literal(obj).v.lit))),
                Member(KType, JStr(json_escape(try_typed_literal(obj).v.tag)))>>)
  ELSE JObj(<<Member(KValue, JStr(json_escape(plain_literal(obj))))>>)

\* one node object: "@id", then one array member per predicate, keys ascending
JsonLdNode(batch, subj) ==
  LET entries == SelectSeqBy(batch, "subject", subj)
      preds   == SortedKeys({entries[i].predicate : i \in 1..Len(entries)})
      Field(pred) ==
        LET of_pred == SelectSeqBy(entries, "predicate", pred)
        IN Member(json_escape(strip_angles(pred)),
                  JArr([i \in 1..Len(of_pred) |->
                          object_to_jsonld_value(of_pred[i].object)]))
  IN JObj(<<Member(KId, JStr(json_escape(strip_angles(subj))))>>
          \o [k \in 1..Len(preds) |-> Field(preds[k])])

\* write_jsonld: the node objects of the top-level array, subjects ascending
write_jsonld(batch) ==
  LET subjects == SortedKeys({batch[i].subject : i \in 1..Len(batch)})
  IN [k \in 1..Len(subjects) |-> JsonLdNode(batch, subjects[k])]

\* ---------------------------------------------------------------- decoders
RECURSIVE Flatten(_)
Flatten(seqs) == IF seqs = <<>> THEN <<>> ELSE Head(seqs) \o Flatten(Tail(seqs))

\* serde_json::from_str on a written string: the escapes are undone
JsonUnescapeUnit(u) ==
  CASE u = "\\\\" -> "\\"
    [] u = "\\\"" -> Quote
    [] u = "\\n" -> "\n"
    [] u = "\\r" -> "\r"
    [] u = "\\t" -> "\t"
    [] OTHER -> u

JsonUnescape(s) == [i \in 1..Len(s) |-> JsonUnescapeUnit(s[i])]

RECURSIVE ParseJson(_)
ParseJson(v) ==
  CASE v.t = "str" -> JStr(JsonUnescape(v.s))
    [] v.t = "arr" -> JArr([i \in 1..Len(v.items) |-> ParseJson(v.items[i])])
    [] v.t = "obj" ->
         JObj([i \in 1..Len(v.items) |->
                 Member(JsonUnescape(v.items[i].key), ParseJson(v.items[i].val))])
    [] OTHER -> v

\* Map::get(key).and_then(as_str): the string under key, or None
GetStr(obj, k) ==
  LET hits == { i \in 1..Len(obj.items) :
                  obj.items[i].key = k /\ obj.items[i].val.t = "str" }
  IN IF obj.t # "obj" \/ hits = {} THEN NoneOpt
     ELSE Some(obj.items[Min(hits)].val.s)

\* Map::get(key) when it is an array: its elements, or None
GetArr(obj, k) ==
  LET hits == { i \in 1..Len(obj.items) :
                  obj.items[i].key = k /\ obj.items[i].val.t = "arr" }
  IN IF obj.t # "obj" \/ hits = {} THEN NoneOpt
     ELSE Some(obj.items[Min(hits)].val.items)

HttpScheme == <<"h", "t", "t", "p", ":", "/", "/">>

HttpsScheme == <<"h", "t", "t", "p", "s", ":", "/", "/">>

UrnScheme == <<"u", "r", "n", ":">>

expand_iri(s) ==
  IF StartsWith(s, HttpScheme) \/ StartsWith(s, HttpsScheme) \/ StartsWith(s, UrnScheme)
    THEN IriTerm(s)
  ELSE IF StartsWith(s, <<"_", ":">>) THEN s
  ELSE IriTerm(s)

NtEscapeChar(c) ==
  CASE c = "\\" -> "\\\\"
    [] c = Quote -> "\\\""
    [] c = "\n" -> "\\n"
    [] c = "\r" -> "\\r"
    [] c = "\t" -> "\\t"
    [] OTHER -> c

nt_escape(s) == [i \in 1..Len(s) |-> NtEscapeChar(s[i])]

RdfType == IriTerm(<<"http://www.w3.org/1999/02/22-rdf-syntax-ns#type">>)

XsdBoolean == IriTerm(<<"http://www.w3.org/2001/XMLSchema#boolean">>)

XsdDecimal == IriTerm(<<"http://www.w3.org/2001/XMLSchema#decimal">>)

\* jsonld_value_to_nt_object: the object term for one array element, or None
jsonld_value_to_nt_object(key, val) ==
  CASE val.t = "obj" ->
         IF GetStr(val, KId).some THEN Some(expand_iri(GetStr(val, KId).v))
         ELSE IF ~GetStr(val, KValue).some THEN NoneOpt
         ELSE IF GetStr(val, KLanguage).some
           THEN Some(PlainLit(nt_escape(GetStr(val, KValue).v))
                     \o <<"@">> \o GetStr(val, KLanguage).v)
         ELSE IF GetStr(val, KType).some
           THEN Some(PlainLit(nt_escape(GetStr(val, KValue).v))
                     \o <<"^", "^">> \o expand_iri(GetStr(val, KType).v))
         ELSE Some(PlainLit(nt_escape(GetStr(val, KValue).v)))
    [] val.t = "str" ->
         IF key = KType THEN Some(expand_iri(val.s))
         ELSE Some(PlainLit(nt_escape(val.s)))
    [] val.t = "bool" -> Some(PlainLit(val.s) \o <<"^", "^">> \o XsdBoolean)
    [] val.t = "num" -> Some(PlainLit(val.s) \o <<"^", "^">> \o XsdDecimal)
    [] OTHER -> NoneOpt

\* the lines extract_node appends for one member of a node object
MemberLines(subject, graph, m) ==
  IF m.key = KId \/ m.key = KContext THEN <<>>
  ELSE LET predicate == IF m.key = KType THEN RdfType ELSE expand_iri(m.key)
           vals == IF m.val.t = "arr" THEN m.val.items ELSE <<m.val>>
           Line(val) ==
             LET o == jsonld_value_to_nt_object(m.key, val)
             IN IF ~o.some THEN <<>>
                ELSE IF graph.some
                  THEN << <<subject, predicate, o.v, graph.v, Dot>> >>
                  ELSE << <<subject, predicate, o.v, Dot>> >>
       IN Flatten([i \in 1..Len(vals) |-> Line(vals[i])])

\* extract_node: the lines appended to out for node, in discovery order
RECURSIVE extract_node(_, _)
extract_node(node, graph) ==
  IF node.t # "obj" THEN <<>>
  ELSE IF GetArr(node, KGraph).some
    THEN LET g == IF GetStr(node, KId).some
                    THEN Some(expand_iri(GetStr(node, KId).v)) ELSE NoneOpt
             inner == GetArr(node, KGraph).v
         IN Flatten([i \in 1..Len(inner) |-> extract_node(inner[i], g)])
  ELSE IF ~GetStr(node, KId).some THEN <<>>
  ELSE Flatten([i \in 1..Len(node.items) |->
                  MemberLines(expand_iri(GetStr(node, KId).v), graph, node.items[i])])

\* jsonld_to_ntriples on a parsed document: the N-Triples text, line by line
jsonld_to_ntriples(v) ==
  CASE v.t = "arr" -> Flatten([i \in 1..Len(v.items) |-> extract_node(v.items[i], NoneOpt)])
    [] v.t = "obj" -> extract_node(v, NoneOpt)
    [] OTHER -> <<>>

\* format!("{subject} {predicate} {o} .\n"): the characters of one statement
NtLine(st) ==
  Flatten([i \in 1..Len(st) |-> IF i = 1 THEN st[i] ELSE <<" ">> \o st[i]])
    \o <<"\n">>

\* the String jsonld_to_ntriples returns
NtText(stmts) == Flatten([i \in 1..Len(stmts) |-> NtLine(stmts[i])])

\* str::lines: the pieces between line breaks
RECURSIVE SplitLines(_)
SplitLines(text) ==
  IF text = <<>> THEN <<>>
  ELSE LET nl == Find(text, <<"\n">>) IN
       IF nl = 0 THEN <<text>>
       ELSE <<SubSeq(text, 1, nl - 1)>> \o SplitLines(SubSeq(text, nl + 1, Len(text)))

\* nt.lines().filter(|l| !l.trim().is_empty()).count()
CountLines(text) ==
  LET ls == SplitLines(text)
  IN Cardinality({ i \in 1..Len(ls) :
                     \E k \in 1..Len(ls[i]) : ls[i][k] \notin {" ", "\t", "\r"} })

\* a statement NTriplesParser accepts: three terms and the period on one line
NtParseable(st) ==
  /\ Len(st) = 4
  /\ \A i \in 1..Len(st) : \A k \in 1..Len(st[i]) : st[i][k] # "\n"

\* the statements NTriplesParser delivers from the text before it meets a
\* line it rejects
NtAccepted(stmts) ==
  LET bad == { i \in 1..Len(stmts) : ~NtParseable(stmts[i]) }
  IN IF bad = {} THEN stmts ELSE SubSeq(stmts, 1, Min(bad) - 1)

\* NTriplesParser / TurtleParser with OwnedTriple::from_rio over lines in
\* the plain line syntax: a triple per line "s p o ."
ParseTripleLines(lines) ==
  [i \in 1..Len(lines) |-> Triple(lines[i][1], lines[i][2], lines[i][3])]

\* NQuadsParser with OwnedQuad::from_rio: the fourth term
\* before the period, when there is one, is the graph name
ParseQuadLines(lines) ==
  [i \in 1..Len(lines) |->
     Quad(Triple(lines[i][1], lines[i][2], lines[i][3]),
          IF Len(lines[i]) = 5 THEN Some(lines[i][4]) ELSE NoneOpt)]

\* TriGParser: a statement followed by a graph term is not TriG; the parser
\* delivers the quads before the first such line and reports a syntax error
RECURSIVE ParseTriGLines(_)
ParseTriGLines(lines) ==
  IF lines = <<>> \/ Len(Head(lines)) = 5 THEN <<>>
  ELSE ParseQuadLines(<<Head(lines)>>) \o ParseTriGLines(Tail(lines))

\* ------------------------------------------------------------------ inputs
TA == IriTerm(<<"a">>)

TB == IriTerm(<<"b">>)

TP == IriTerm(<<"p">>)

TG == IriTerm(<<"g">>)

\* the records a decoder can deliver: subjects out of order, a literal and a
\* blank-node object, a quad in the default graph and one in a named graph
TripleRecords ==
  { Triple(TB, TP, PlainLit(<<"v">>)), Triple(TA, TP, BlankTerm(<<"x">>)) }

QuadRecords ==
  { Quad(Triple(TB, TP, PlainLit(<<"v">>)), NoneOpt),
    Quad(Triple(TA, TP, BlankTerm(<<"x">>)), Some(TG)) }

RecordsOf(f) == IF f \in QuadFormats THEN QuadRecords ELSE TripleRecords

\* the records of S in a fixed order
RECURSIVE SortedRecords(_)
SortedRecords(S) ==
  IF S = {} THEN <<>>
  ELSE LET r == CHOOSE x \in S : TRUE IN <<r>> \o SortedRecords(S \ {r})

SeqsUpTo(S, n) == UNION { [1..k -> S] : k \in 0..n }

\* the streams of up to n records a decoder delivers: every sequence of up
\* to MaxMixed records, and for each greater length the stream that takes
\* the records in turn
Streams(S, n) ==
  LET list == SortedRecords(S)
  IN SeqsUpTo(S, IF n < MaxMixed THEN n ELSE MaxMixed)
     \cup { [i \in 1..k |-> list[((i - 1) % Len(list)) + 1]] : k \in (MaxMixed + 1)..n }

InputExts ==
  {"nt", "TTL", "rdf", "owl", "xml", "nquads", "trig", "jsonld", "json", "json-ld",
   "txt"}

\* an input file: its stem and extension, the records its decoder delivers
\* in document order, and whether the decoder then reports a syntax error
\* instead of the end of the stream.  A malformed JSON-LD file is one that
\* serde_json rejects: no record is delivered (the documents that parse are
\* the input files of JsonInit)
InputFiles ==
  { [stem |-> "data", ext |-> e, recs |-> r, malformed |-> m] :
      e \in {"txt"}, r \in {<<>>}, m \in {FALSE} }
  \cup { f \in UNION { { [stem |-> "data", ext |-> e, recs |-> r, malformed |-> m] :
                           r \in Streams(RecordsOf(from_path(e)), MaxLen),
                           m \in BOOLEAN } :
                       e \in InputExts \ {"txt"} } :
           (from_path(f.ext) = "JsonLd" /\ f.malformed) => f.recs = <<>> }

\* the input file of two invocations in a row
RerunInputFiles ==
  { [stem |-> "data", ext |-> e, recs |-> r, malformed |-> m] :
      e \in {"nt"}, r \in Streams(TripleRecords, MaxLen), m \in BOOLEAN }
  \cup { [stem |-> "data", ext |-> e, recs |-> r, malformed |-> m] :
           e \in {"trig"}, r \in Streams(QuadRecords, MaxLen), m \in BOOLEAN }

\* the streams of 0..n records that take the records of S in turn
CyclicStreams(S, n) ==
  LET list == SortedRecords(S)
  IN { [i \in 1..k |-> list[((i - 1) % Len(list)) + 1]] : k \in 0..n }

\* the input files of a run over several files: an unrecognised extension,
\* a well-formed N-Triples file of MaxMixed records, and one whose second
\* line is malformed
RunInputFiles ==
  UNION { { [stem |-> st, ext |-> "txt", recs |-> <<>>, malformed |-> FALSE] }
          \cup { [stem |-> st, ext |-> "nt", recs |-> r, malformed |-> FALSE] :
                   r \in { x \in CyclicStreams(TripleRecords, MaxMixed) :
                             Len(x) = MaxMixed } }
          \cup { [stem |-> st, ext |-> "nt", recs |-> r, malformed |-> TRUE] :
                   r \in { x \in CyclicStreams(TripleRecords, 1) : Len(x) = 1 } } :
          st \in {"data", "more"} }

\* Cli: --chunk-size and --file-count conflict, so at most one is given
\* Option<usize>
NoneNat == [some |-> FALSE, v |-> 0]

SomeNat(n) == [some |-> TRUE, v |-> n]

CliOptions ==
  { [chunk_size |-> c, file_count |-> f, force |-> fo] :
      c \in {NoneNat} \cup { SomeNat(n) : n \in 0..MaxChunk },
      f \in {NoneNat} \cup { SomeNat(n) : n \in (0..MaxCount) \cup {UsizeMax} },
      fo \in BOOLEAN }

Clis == { c \in CliOptions : ~c.chunk_size.some \/ ~c.file_count.some }

\* the command lines of an invocation that is followed or preceded by
\* another one on the same input: a chunk size or file count >= 1, or neither
RerunClis ==
  { c \in Clis : /\ c.chunk_size.some => c.chunk_size.v >= 1
                 /\ c.file_count.some => c.file_count.v \in 1..MaxCount }

\* the command lines of the runs over several files
RunClis ==
  { c \in Clis : /\ c.chunk_size.some => c.chunk_size.v = 1
                 /\ c.file_count.some => c.file_count.v \in {0, MaxCount, UsizeMax} }

\* ------------------------------------------------------------------ errors
\* SplitterError values; idx is the chunk index of a failed chunk, else -1
Err(kind, op, idx) == [kind |-> kind, op |-> op, idx |-> idx]

NoErr == Err(None, None, -1)

OutputDirMissing == Err("OutputDirMissing", None, -1)

OutputExists(idx) == Err("OutputExists", "check_overwrite", idx)

IoErr(op, idx) == Err("Io", op, idx)

ParseErr == Err("Parse", "parse_all", -1)

\* Result<usize, SplitterError> of split_file, and the two ways the run loop
\* leaves a file without calling it
Ok(n) == [kind |-> "Ok", n |-> n, err |-> NoErr]

Failed(e) == [kind |-> "Err", n |-> 0, err |-> e]

SkippedAsError == [kind |-> "Err", n |-> 0, err |-> Err("UnsupportedFormat", None, -1)]

Skipped == [kind |-> "Skipped", n |-> 0, err |-> NoErr]

\* ------------------------------------------------------------------- state
VARIABLES
  cli,            \* the parsed command line
  files,          \* the resolved input files
  fi,             \* 1-based position of the run loop in files
  pc,             \* "resolve", "count", "prepare", "decode", "done", "panic"
  counted,        \* n of count_records: records counted by the counting pass
  chunk_size,     \* opts.chunk_size of the current file
  triples,        \* the chunk buffer (triples / quads)
  chunk,          \* index of the next chunk
  total,          \* records written so far
  flush_err,      \* the captured flush error
  parsed,         \* records delivered to the callback so far
  dirExists,      \* whether opts.output_dir exists
  disk,           \* the files of opts.output_dir: path -> contents
  faults,         \* I/O failures the environment has produced
  total_triples, total_files, errors,   \* the run's totals
  outcome,        \* per input file, how the run loop left it
  attempts,       \* history: the chunk writes attempted for the current file
  disk0,          \* history: disk as it was before the run
  dir0,           \* history: dirExists as it was before the run
  earlier         \* history: the invocation that ran before this one, if any

vars ==
  <<cli, files, fi, pc, counted, chunk_size, triples, chunk, total, flush_err,
    parsed, dirExists, disk, faults, total_triples, total_files, errors, outcome,
    attempts, disk0, dir0, earlier>>

file == files[fi]

fmt == from_path(file.ext)

\* -------------------------------------------------------------- filesystem
\* a file holds the encoded records written to it; complete is FALSE when the
\* write stopped part-way; old marks a file that was there before the run
Content(data, complete) == [data |-> data, complete |-> complete, old |-> FALSE]

OldContent == [data |-> <<>>, complete |-> TRUE, old |-> TRUE]

Exists(d, path) == path \in DOMAIN d

PutFileAppend(d, path, c) ==
  [q \in (DOMAIN d) \cup {path} |->
     IF q # path THEN d[q]
     ELSE IF q \in DOMAIN d THEN [c EXCEPT !.data = d[q].data \o c.data]
     ELSE c]

PutFileAlone(d, path, c) == [q \in {path} |-> c]

\* File::create followed by writes: the path now holds exactly c
PutFile(d, path, c) ==
  [q \in (DOMAIN d) \cup {path} |-> IF q = path THEN c ELSE d[q]]

\* the encoder write_triple_chunk / write_quad_chunk / split_jsonld_file pick
Encode(f, batch) ==
  CASE f = "NTriples" -> write_ntriples(batch)
    [] f = "Turtle" -> write_turtle(batch)
    [] f = "RdfXml" -> write_rdfxml(batch)
    [] f = "NQuads" -> write_nquads(batch)
    [] f = "TriG" -> write_trig(batch)
    [] f = "JsonLd" -> write_jsonld(batch)

check_overwrite_always(d, path, force) == TRUE

\* check_overwrite: TRUE for Ok(()), FALSE for Err(OutputExists)
check_overwrite(d, path, force) == ~(Exists(d, path) /\ ~force)

prepare_output_dir_create(dir, force, canFail) ==
  { [err |-> NoErr, dir |-> TRUE, used |-> 0] }

\* prepare_output_dir: the outcomes [err, dir, used] it can have
prepare_output_dir(dir, force, canFail) ==
  IF dir THEN { [err |-> NoErr, dir |-> TRUE, used |-> 0] }
  ELSE IF ~force THEN { [err |-> OutputDirMissing, dir |-> FALSE, used |-> 0] }
  ELSE { [err |-> NoErr, dir |-> TRUE, used |-> 0] }
       \cup { [err |-> IoErr("create_dir_all", -1), dir |-> FALSE, used |-> 1] :
                x \in IF canFail THEN {1} ELSE {} }

\* write_triple_chunk, write_quad_chunk and the closure of split_jsonld_file:
\* the outcomes [err, disk, used] of writing batch as chunk idx.  The
\* overwrite check comes first; File::create creates or truncates the path;
\* a failing write leaves what was written before it.
write_chunk(d, stem, f, batch, idx, force, canFail) ==
  LET path == chunk_path(stem, f, idx)
      data == Encode(f, batch)
  IN IF ~check_overwrite(d, path, force)
       THEN { [err |-> OutputExists(idx), disk |-> d, used |-> 0] }
     ELSE { [err |-> NoErr, disk |-> PutFile(d, path, Content(data, TRUE)), used |-> 0] }
          \cup (IF canFail
             THEN { [err |-> IoErr("create", idx), disk |-> d, used |-> 1] }
                  \cup { [err |-> IoErr("write", idx),
                          disk |-> PutFile(d, path, Content(SubSeq(data, 1, k), FALSE)),
                          used |-> 1] : k \in 0..(Len(data) - 1) }
             ELSE {})

count_records_lenient(f) == Ok(Len(f.recs))

\* count_records: Ok(n) after a full pass, or the first decode error; for a
\* JSON-LD document the non-blank lines of its converted text
count_records(f) ==
  IF "doc" \in DOMAIN f THEN Ok(CountLines(NtText(jsonld_to_ntriples(f.doc))))
  ELSE IF f.malformed THEN Failed(ParseErr) ELSE Ok(Len(f.recs))

\* the items the counting pass goes over: the lines of the converted text
\* of a JSON-LD document, else the records the decoder delivers
CountLen(f) ==
  IF "doc" \in DOMAIN f THEN CountLines(NtText(jsonld_to_ntriples(f.doc)))
  ELSE Len(f.recs)

DerivedChunkSizeNoFloor(n, fc) ==
  UNION { IF s.panic THEN {s}
          ELSE { [panic |-> d.panic, overflow |-> s.overflow \/ d.overflow,
                  v |-> IF d.panic THEN 0 ELSE d.v \div fc] :
                   d \in UsizeSub(s.v, 1) } :
          s \in UsizeAdd(n, fc) }

\* main.rs: ((total + fc - 1) / fc).max(1), the chunk size derived from the
\* record count and --file-count, evaluated left to right in usize; the
\* outcomes [panic, overflow, v]
DerivedChunkSize(n, fc) ==
  UNION { IF s.panic THEN {s}
          ELSE { [panic |-> d.panic, overflow |-> s.overflow \/ d.overflow,
                  v |-> IF d.panic THEN 0 ELSE Max({d.v \div fc, 1})] :
                   d \in UsizeSub(s.v, 1) } :
          s \in UsizeAdd(n, fc) }

\* no invocation has run before this one
NoEarlier == [ran |-> FALSE, chunk_size |-> 0, ok |-> FALSE]

\* -------------------------------------------------------------------- Init
\* the state at the top of the run loop, before the first input file
Start ==
  /\ fi = 1
  /\ pc = "resolve"
  /\ counted = 0
  /\ chunk_size = 0
  /\ triples = <<>>
  /\ chunk = 0
  /\ total = 0
  /\ flush_err = NoErr
  /\ parsed = 0
  /\ disk0 = disk
  /\ dir0 = dirExists
  /\ faults = 0
  /\ total_triples = 0
  /\ total_files = 0
  /\ errors = 0
  /\ outcome = <<>>
  /\ attempts = <<>>
  /\ earlier = NoEarlier

Init ==
  /\ cli \in Clis
  /\ \E f \in InputFiles : files = <<f>>
  /\ dirExists \in BOOLEAN
  /\ \E pre \in {{}} \cup { {i} : i \in 0..MaxPre } :
       disk = [q \in { chunk_path(files[1].stem, from_path(files[1].ext), i) :
                         i \in IF dirExists /\ from_path(files[1].ext) # None
                                 THEN pre ELSE {} } |-> OldContent]
  /\ Start

\* a run over one to MaxFiles input files; the output directory is empty or
\* holds the first chunk path of the first file
RunInit ==
  /\ cli \in RunClis
  /\ files \in UNION { [1..k -> RunInputFiles] : k \in 1..MaxFiles }
  /\ dirExists \in BOOLEAN
  /\ \E pre \in {{}, {0}} :
       disk = [q \in { chunk_path(files[1].stem, from_path(files[1].ext), i) :
                         i \in IF dirExists /\ from_path(files[1].ext) # None
                                 THEN pre ELSE {} } |-> OldContent]
  /\ Start

\* a first invocation on an existing, empty output directory
RerunInit ==
  /\ cli \in RerunClis
  /\ \E f \in RerunInputFiles : files = <<f>>
  /\ dirExists = TRUE
  /\ disk = [q \in {} |-> OldContent]
  /\ Start

\* ----------------------------------------------------------------- actions
EndFileStop(r) ==
  /\ outcome' = Append(outcome, r)
  /\ total_triples' = IF r.kind = "Ok" THEN total_triples + r.n ELSE total_triples
  /\ total_files' = IF r.kind = "Ok" THEN total_files + 1 ELSE total_files
  /\ errors' = IF r.kind = "Err" THEN errors + 1 ELSE errors
  /\ fi' = IF fi < Len(files) /\ r.kind # "Err" THEN fi + 1 ELSE fi
  /\ pc' = IF fi < Len(files) /\ r.kind # "Err" THEN "resolve" ELSE "done"

\* main.rs: the run loop leaves the current file with result r
EndFile(r) ==
  /\ outcome' = Append(outcome, r)
  /\ total_triples' = IF r.kind = "Ok" THEN total_triples + r.n ELSE total_triples
  /\ total_files' = IF r.kind = "Ok" THEN total_files + 1 ELSE total_files
  /\ errors' = IF r.kind = "Err" THEN errors + 1 ELSE errors
  /\ fi' = IF fi < Len(files) THEN fi + 1 ELSE fi
  /\ pc' = IF fi < Len(files) THEN "resolve" ELSE "done"

\* main.rs run, top of the loop body: detect the format, resolve chunk size
\* (a fixed or default size at once, a derived one after the counting pass)
Resolve ==
  /\ pc = "resolve"
  /\ UNCHANGED <<cli, files, triples, chunk, total, flush_err, parsed,
                 dirExists, disk, faults, attempts, disk0, dir0, earlier>>
  /\ IF fmt = None
       THEN EndFile(Skipped) /\ UNCHANGED <<chunk_size, counted>>
     ELSE IF cli.file_count.some
       THEN IF cli.file_count.v = 0
              THEN EndFile(Failed(Err("FileCount", None, -1)))
                   /\ UNCHANGED <<chunk_size, counted>>
              ELSE /\ pc' = "count"
                   /\ counted' = 0
                   /\ UNCHANGED <<chunk_size, fi, outcome, total_triples,
                                  total_files, errors>>
     ELSE /\ chunk_size' = IF cli.chunk_size.some THEN cli.chunk_size.v
                           ELSE DefaultChunkSize
          /\ pc' = "prepare"
          /\ UNCHANGED <<counted, fi, outcome, total_triples, total_files, errors>>

\* count_records, the callback of the counting pass: n += 1
CountRecord ==
  /\ pc = "count"
  /\ counted < CountLen(file)
  /\ counted' = counted + 1
  /\ UNCHANGED <<cli, files, fi, pc, chunk_size, triples, chunk, total, flush_err,
                 parsed, dirExists, disk, faults, total_triples, total_files,
                 errors, outcome, attempts, disk0, dir0, earlier>>

\* count_records returns, and main.rs derives the chunk size from Ok(total)
\* or reports the error and goes on to the next file; an overflow check that
\* fails aborts the process
CountEnd ==
  /\ pc = "count"
  /\ counted = CountLen(file)
  /\ UNCHANGED <<cli, files, counted, triples, chunk, total, flush_err, parsed,
                 dirExists, disk, faults, attempts, disk0, dir0, earlier>>
  /\ IF count_records(file).kind = "Ok"
       THEN \E o \in DerivedChunkSize(count_records(file).n, cli.file_count.v) :
              /\ pc' = IF o.panic THEN "panic" ELSE "prepare"
              /\ chunk_size' = IF o.panic THEN chunk_size ELSE o.v
              /\ UNCHANGED <<fi, outcome, total_triples, total_files, errors>>
       ELSE EndFile(count_records(file)) /\ UNCHANGED chunk_size

CarriedBuffer == triples

\* Vec::with_capacity(opts.chunk_size): the empty buffer a split starts with
FreshBuffer == <<>>

\* split_file up to the decode loop: prepare_output_dir, then the fresh
\* buffer, chunk index, total and captured error of split_triples /
\* split_quads / split_jsonld_file
Prepare ==
  /\ pc = "prepare"
  /\ UNCHANGED <<cli, files, counted, chunk_size, disk, disk0, dir0, earlier>>
  /\ \E o \in prepare_output_dir(dirExists, cli.force, faults < MaxFaults) :
       /\ dirExists' = o.dir
       /\ faults' = faults + o.used
       /\ triples' = FreshBuffer
       /\ chunk' = 0
       /\ total' = 0
       /\ flush_err' = NoErr
       /\ parsed' = 0
       /\ attempts' = <<>>
       /\ IF o.err # NoErr
            THEN EndFile(Failed(o.err))
            ELSE /\ pc' = "decode"
                 /\ UNCHANGED <<fi, outcome, total_triples, total_files, errors>>

\* history record of one chunk write: the index and batch, the error (or
\* NoErr), the records delivered so far, whether the target path existed
\* before it, and whether it was the remainder flush after the decode
Attempt(idx, batch, e, at, existed, final) ==
  [idx |-> idx, batch |-> batch, err |-> e, at |-> at, existed |-> existed,
   final |-> final]

ShouldFlushStrict(len, cs) == len > cs

ShouldFlushPositive(len, cs) == cs > 0 /\ len >= cs

\* the callback's test for a full buffer
ShouldFlush(len, cs) == len >= cs

NextChunkSame(c) == c

\* a successful flush: *chunk += 1
NextChunk(c) == c + 1

WrittenOne(t, batch) == t + 1

\* a successful flush: *total += triples.len()
Written(t, batch) == t + Len(batch)

CapturedNever(e) == FALSE

\* if let Some(e) = flush_err
Captured(e) == e # NoErr

ClearedButLast(buf) == <<buf[Len(buf)]>>

\* triples.clear() after a successful flush
Cleared(buf) == <<>>

DroppedOnFailure(buf) == <<>>

\* the Err arm of flush leaves the buffer as it is
Kept(buf) == buf

HasRemainderAlways(buf) == TRUE

\* if !triples.is_empty(), the test before the remainder flush
HasRemainder(buf) == buf # <<>>

EndOfStreamNever(n, len) == n > len

\* parse_all returns once the decoder has consumed the n = len records of
\* the input
EndOfStream(n, len) == n = len

\* on_triple / on_quad: push the record, flush when the buffer has reached
\* chunk_size.  The callback returns Ok(()) whatever the flush did.
OnRecord ==
  /\ pc = "decode"
  /\ parsed < Len(file.recs)
  /\ UNCHANGED <<cli, files, fi, pc, counted, chunk_size, dirExists, disk0, dir0,
                 total_triples, total_files, errors, outcome, earlier>>
  /\ parsed' = parsed + 1
  /\ LET pushed == Append(triples, file.recs[parsed + 1]) IN
     IF ShouldFlush(Len(pushed), chunk_size)
       THEN \E o \in write_chunk(disk, file.stem, fmt, pushed, chunk, cli.force,
                                 faults < MaxFaults) :
              /\ disk' = o.disk
              /\ faults' = faults + o.used
              /\ attempts' = Append(attempts,
                   Attempt(chunk, pushed, o.err, parsed + 1,
                           Exists(disk, chunk_path(file.stem, fmt, chunk)), FALSE))
              /\ IF o.err = NoErr
                   THEN /\ chunk' = NextChunk(chunk)
                        /\ total' = Written(total, pushed)
                        /\ triples' = Cleared(pushed)
                        /\ UNCHANGED flush_err
                   ELSE /\ flush_err' = o.err
                        /\ triples' = Kept(pushed)
                        /\ UNCHANGED <<chunk, total>>
       ELSE /\ triples' = pushed
            /\ UNCHANGED <<chunk, total, flush_err, disk, faults, attempts>>

\* parse_all(..).map_err(..)?: the decoder meets a syntax error
DecodeFail ==
  /\ pc = "decode"
  /\ EndOfStream(parsed, Len(file.recs))
  /\ file.malformed
  /\ UNCHANGED <<cli, files, counted, chunk_size, triples, chunk, total, flush_err,
                 parsed, dirExists, disk, faults, attempts, disk0, dir0, earlier>>
  /\ EndFile(Failed(ParseErr))

\* after parse_all: return the captured flush error, else flush the
\* remainder (index and buffer are left as they are) and return Ok(total)
Finish ==
  /\ pc = "decode"
  /\ EndOfStream(parsed, Len(file.recs))
  /\ ~file.malformed
  /\ UNCHANGED <<cli, files, counted, chunk_size, triples, chunk, flush_err,
                 parsed, dirExists, disk0, dir0, earlier>>
  /\ IF Captured(flush_err)
       THEN EndFile(Failed(flush_err)) /\ UNCHANGED <<total, disk, faults, attempts>>
     ELSE IF HasRemainder(triples)
       THEN \E o \in write_chunk(disk, file.stem, fmt, triples, chunk, cli.force,
                                 faults < MaxFaults) :
              /\ disk' = o.disk
              /\ faults' = faults + o.used
              /\ attempts' = Append(attempts,
                   Attempt(chunk, triples, o.err, parsed,
                           Exists(disk, chunk_path(file.stem, fmt, chunk)), TRUE))
              /\ IF o.err = NoErr
                   THEN /\ total' = Written(total, triples)
                        /\ EndFile(Ok(Written(total, triples)))
                   ELSE UNCHANGED total /\ EndFile(Failed(o.err))
     ELSE EndFile(Ok(total)) /\ UNCHANGED <<total, disk, faults, attempts>>

\* main.rs, after the loop: process::exit(2) if any file failed; 101 is the
\* status of a process that panicked
ExitStatus == IF pc = "panic" THEN 101 ELSE IF errors > 0 THEN 2 ELSE 0

Next == Resolve \/ CountRecord \/ CountEnd \/ Prepare \/ OnRecord \/ DecodeFail \/ Finish

Spec == Init /\ [][Next]_vars

\* the program is invoked again with the same input file and output
\* directory, and a command line of its own; what the earlier invocation
\* left on disk is there before this one starts
Rerun ==
  /\ pc = "done"
  /\ ~earlier.ran
  /\ earlier' = [ran |-> TRUE, chunk_size |-> chunk_size,
                 ok |-> \A i \in 1..Len(outcome) : outcome[i].kind = "Ok"]
  /\ cli' \in RerunClis
  /\ disk' = [q \in DOMAIN disk |-> [disk[q] EXCEPT !.old = TRUE]]
  /\ disk0' = disk'
  /\ dir0' = dirExists
  /\ fi' = 1
  /\ pc' = "resolve"
  /\ counted' = 0
  /\ chunk_size' = 0
  /\ triples' = <<>>
  /\ chunk' = 0
  /\ total' = 0
  /\ flush_err' = NoErr
  /\ parsed' = 0
  /\ total_triples' = 0
  /\ total_files' = 0
  /\ errors' = 0
  /\ outcome' = <<>>
  /\ attempts' = <<>>
  /\ UNCHANGED <<files, dirExists, faults>>

RerunNext == Next \/ Rerun

\* two invocations in a row on the same input and output directory
RerunSpec == RerunInit /\ [][RerunNext]_vars

\* the run loop over several input files
RunSpec == RunInit /\ [][Next]_vars

\* the split of one N-Triples file
SplitInit ==
  /\ cli \in Clis
  /\ \E r \in Streams(TripleRecords, MaxLen), m \in BOOLEAN :
       files = <<[stem |-> "data", ext |-> "nt", recs |-> r, malformed |-> m]>>
  /\ dirExists \in BOOLEAN
  /\ \E pre \in {{}} \cup { {i} : i \in 0..MaxPre } :
       disk = [q \in { chunk_path(files[1].stem, from_path(files[1].ext), i) :
                         i \in IF dirExists THEN pre ELSE {} } |-> OldContent]
  /\ Start

\* the split of one file as the process executes it: the program is one
\* thread of synchronous calls, so a step that can be taken is taken
FairSpec == SplitInit /\ [][Next]_vars /\ WF_vars(Next)

\* a predicate that is an absolute IRI
TQ == IriTerm(<<"e", ":", "p">>)

\* the records of the batches handed to the encoders: a subject with two
\* predicates next to the records of the other runs
EncRecordsOf(f) ==
  IF f \in QuadFormats THEN QuadRecords
  ELSE TripleRecords \cup { Triple(TA, TQ, PlainLit(<<"v">>)) }

EncInputFiles ==
  { f \in UNION { { [stem |-> "data", ext |-> e, recs |-> r, malformed |-> m] :
                     r \in Streams(EncRecordsOf(from_path(e)), MaxLen),
                     m \in BOOLEAN } :
                 e \in {"nt", "TTL", "nquads", "trig", "rdf", "jsonld"} } :
      (from_path(f.ext) = "JsonLd" /\ f.malformed) => f.recs = <<>> }

\* a run on one file of each syntax into an existing, empty output directory
EncInit ==
  /\ cli \in Clis
  /\ \E f \in EncInputFiles : files = <<f>>
  /\ dirExists = TRUE
  /\ disk = [q \in {} |-> OldContent]
  /\ Start

EncSpec == EncInit /\ [][Next]_vars

\* ---------------------------------------------------- JSON-LD documents
KP == <<"p">>

SA == <<"a">>

SB == <<"b">>

SG == <<"g">>

SD == <<"d">>

\* an identifier with a line break in it
SNl == <<"a", "\n", "b">>

\* a node object: "@id" first, then its fields (the key order of the Map)
JNode(id, fields) == JObj(<<Member(KId, JStr(id))>> \o fields)

VRef == JObj(<<Member(KId, JStr(SB))>>)

VStr == JStr(<<"v">>)

VNull == JTok("null", <<>>)

\* a value object whose "@value" is a number
VNumValue == JObj(<<Member(KValue, JTok("num", <<"4", "2">>))>>)

\* the kinds of element of a field's value: a reference, value objects
\* (plain, with language tag, with datatype, holding a number), a string, a
\* boolean, a number, null, a nested array, an empty object, and a nested
\* node object with a field of its own
ElementValues ==
  { VRef,
    JObj(<<Member(KValue, JStr(<<"v">>))>>),
    JObj(<<Member(KLanguage, JStr(<<"e", "n">>)), Member(KValue, JStr(<<"v">>))>>),
    JObj(<<Member(KType, JStr(SD)), Member(KValue, JStr(<<"v">>))>>),
    VNumValue,
    VStr,
    JTok("bool", <<"t", "r", "u", "e">>),
    JTok("num", <<"4", "2">>),
    VNull,
    JArr(<<VStr>>),
    JObj(<<>>),
    JObj(<<Member(KId, JStr(SB)), Member(KP, VStr)>>) }

\* the values of a field: one element, or an array of up to MaxElems elements
FieldValues ==
  ElementValues
  \cup { JArr(q) : q \in UNION { [1..k -> {VStr, VRef, VNull, VNumValue}] :
                                   k \in 0..MaxElems } }

NodeA == JNode(SA, <<Member(KP, VStr)>>)

NodeB == JNode(SB, <<Member(KP, VRef)>>)

\* named-graph containers: "@graph" sorts before "@id"
Container(id, nodes, fields) ==
  JObj(<<Member(KGraph, JArr(nodes)), Member(KId, JStr(id))>> \o fields)

\* the documents serde_json::from_str yields for the inputs of the model
JsonDocs ==
  { JNode(SA, <<Member(KP, v)>>) : v \in FieldValues }
  \cup { JNode(SA, <<Member(KType, v)>>) : v \in {VStr, JArr(<<VStr, VRef>>)} }
  \cup { JNode(SA, <<Member(KType, VStr), Member(KP, VStr)>>),
         JObj(<<Member(KContext, JObj(<<>>)), Member(KId, JStr(SA)), Member(KP, VStr)>>),
         JNode(SNl, <<Member(KP, VStr)>>),
         JArr(<<NodeA, JNode(SNl, <<Member(KP, VStr)>>)>>),
         JObj(<<Member(KP, VStr)>>),
         VStr,
         JArr(<<>>),
         JArr(<<NodeA, JObj(<<Member(KP, VStr)>>), NodeB>>),
         JArr(<<NodeB, VStr, NodeA, NodeA>>),
         Container(SG, <<NodeA, NodeB>>, <<>>),
         Container(SG, <<NodeA>>, <<Member(KP, VStr)>>),
         JObj(<<Member(KGraph, JArr(<<NodeA>>))>>),
         Container(SG, <<Container(SD, <<NodeA>>, <<>>), NodeB>>, <<>>),
         Container(SG, <<JObj(<<Member(KGraph, JArr(<<NodeA>>))>>)>>, <<>>),
         JArr(<<NodeB, Container(SG, <<NodeA>>, <<>>)>>) }

\* a JSON-LD input file: split_jsonld_file decodes the converted text with
\* NTriplesParser, which delivers the statements before the first line it
\* rejects
JsonFile(doc) ==
  [stem |-> "data", ext |-> "jsonld", doc |-> doc,
   recs |-> ParseTripleLines(NtAccepted(jsonld_to_ntriples(doc))),
   malformed |-> NtAccepted(jsonld_to_ntriples(doc)) # jsonld_to_ntriples(doc)]

JsonInit ==
  /\ cli \in { c \in Clis : /\ c.chunk_size.some => c.chunk_size.v \in {1, MaxChunk}
                            /\ c.file_count.some => c.file_count.v \in 1..MaxCount }
  /\ \E d \in JsonDocs : files = <<JsonFile(d)>>
  /\ dirExists = TRUE
  /\ disk = [q \in {} |-> OldContent]
  /\ Start

\* a run on one JSON-LD document
JsonSpec == JsonInit /\ [][Next]_vars

\* ------------------------------------------------------------------ claims
CeilDiv(n, d) == (n + d - 1) \div d

RECURSIVE SumSeq(_)
SumSeq(q) == IF q = <<>> THEN 0 ELSE Head(q) + SumSeq(Tail(q))

\* the records a chunk file holds: its lines, its rdf:Description blocks,
\* or the elements of the predicate arrays of its node objects
RecordCount(f, c) ==
  IF f # "JsonLd" THEN Len(c.data)
  ELSE SumSeq([i \in 1..Len(c.data) |->
                 SumSeq([j \in 1..Len(c.data[i].items) |->
                           IF c.data[i].items[j].key = KId THEN 0
                           ELSE Len(c.data[i].items[j].val.items)])])

\* the chunk files this run has created or overwritten
RunFiles == { q \in DOMAIN disk : ~disk[q].old }

ChunkFile(i) == chunk_path(file.stem, fmt, i)

\* split_file has returned Ok for the (single) input file
SplitOk == pc = "done" /\ outcome[fi].kind = "Ok"

NRecords == Len(file.recs)

\* C1: with a fixed chunk size s >= 1, a successful split of N records
\* writes exactly ceil(N/s) chunk files, indices 0..ceil(N/s)-1; each but the
\* last holds s records and the last holds N - s*(chunks-1), in 1..s.
C1_FixedSizeChunks ==
  (SplitOk /\ ~cli.file_count.some /\ chunk_size >= 1) =>
    LET k == CeilDiv(NRecords, chunk_size) IN
      /\ RunFiles = { ChunkFile(i) : i \in 0..(k - 1) }
      /\ \A i \in 0..(k - 1) : disk[ChunkFile(i)].complete
      /\ \A i \in 0..(k - 2) : RecordCount(fmt, disk[ChunkFile(i)]) = chunk_size
      /\ k >= 1 =>
           /\ RecordCount(fmt, disk[ChunkFile(k - 1)]) = NRecords - chunk_size * (k - 1)
           /\ RecordCount(fmt, disk[ChunkFile(k - 1)]) \in 1..chunk_size

C1_Witness ==
  /\ SplitOk /\ cli.chunk_size.some /\ chunk_size = 3 /\ NRecords = 4
  /\ Cardinality(RunFiles) = 2

\* C2: in file-count mode with f >= 1 and N >= f records, a successful
\* split writes exactly f chunk files.
C2_ExactFileCount ==
  (SplitOk /\ cli.file_count.some /\ cli.file_count.v >= 1
     /\ NRecords >= cli.file_count.v) =>
    Cardinality(RunFiles) = cli.file_count.v

\* C4: when split_file returns Ok(n), n is the number of records delivered
\* to the callback and the sum of the record counts of the chunk files the
\* split wrote.
C4_TotalIsSumOfChunks ==
  SplitOk =>
    /\ outcome[fi].n = parsed
    /\ parsed = NRecords
    /\ \E k \in 0..NRecords :
         /\ RunFiles = { ChunkFile(i) : i \in 0..(k - 1) }
         /\ outcome[fi].n =
              SumSeq([i \in 1..k |-> RecordCount(fmt, disk[ChunkFile(i - 1)])])

C4_Witness ==
  /\ SplitOk /\ outcome[fi].n = 4 /\ chunk_size = 3
  /\ Len(attempts) = 2 /\ attempts[2].final

\* decoding a chunk file with the decoder of its syntax
DecodeChunk(f, data) ==
  CASE f \in {"NTriples", "Turtle"} -> ParseTripleLines(data)
    [] f = "NQuads" -> ParseQuadLines(data)
    [] f = "TriG" -> ParseTriGLines(data)
    [] f = "JsonLd" -> ParseTripleLines(jsonld_to_ntriples(ParseJson(JArr(data))))

\* the records of chunk files 0..k-1, decoded and concatenated in index order
DecodedChunks(k) ==
  Flatten([i \in 1..k |-> DecodeChunk(fmt, disk[ChunkFile(i - 1)].data)])

\* C3: after a successful split, the records decoded from the chunk files,
\* concatenated in chunk-index order, are exactly the sequence of records
\* the decoder delivered (stated for the syntaxes whose decoder is part of
\* the model: the line syntaxes and JSON-LD).
C3_RoundTrip ==
  (SplitOk /\ fmt # "RdfXml") =>
    DecodedChunks(Cardinality(RunFiles)) = file.recs

\* the same restricted to the plain line syntaxes
LineSyntaxRoundTrip ==
  (SplitOk /\ fmt \notin {"RdfXml", "JsonLd", "TriG"}) =>
    DecodedChunks(Cardinality(RunFiles)) = file.recs

IsOk(a) == a.err = NoErr

IsFailed(a) == a.err # NoErr

Succeeded == SelectSeq(attempts, IsOk)

FailedAttempts == { i \in 1..Len(attempts) : IsFailed(attempts[i]) }

InStreamOk(a) == a.err = NoErr /\ ~a.final

C6_DecodeAbortsAfterFlushFailure ==
  FailedAttempts # {} =>
    LET first == attempts[Min(FailedAttempts)] IN
      /\ parsed = first.at
      /\ triples = first.batch

\* C7: after a flush attempt has failed, no further flush attempt is made
\* for that input file.
C7_NoRetryAfterFailedFlush ==
  \A i \in FailedAttempts : i = Len(attempts)

C9_NoForceKeepsExistingFiles ==
  ~cli.force =>
    /\ \A i \in 1..Len(attempts) :
         attempts[i].existed => attempts[i].err = OutputExists(attempts[i].idx)
    /\ \A q \in DOMAIN disk0 : Exists(disk, q) /\ disk[q] = disk0[q]

C9_Witness ==
  /\ ~cli.force
  /\ pc = "done"
  /\ \E i \in 1..Len(attempts) : attempts[i].existed
  /\ outcome[fi].err.kind = "OutputExists"

\* split_file was entered for the input: the run loop neither skipped the
\* file nor gave it up while resolving the chunk size
EnteredSplit ==
  /\ pc = "done"
  /\ outcome[fi].kind # "Skipped"
  /\ outcome[fi].err.kind # "FileCount"
  /\ ~(cli.file_count.some /\ file.malformed)

\* C10: with the output directory missing and force unset, split_file fails
\* with OutputDirMissing before the input is decoded, creating neither the
\* directory nor a chunk file; with force set the directory is created and
\* the split proceeds; an existing directory stays.
C10_OutputDirPolicy ==
  /\ dir0 => dirExists
  /\ (~dir0 /\ ~cli.force) =>
       /\ ~dirExists
       /\ disk = disk0
       /\ pc # "decode" /\ parsed = 0 /\ attempts = <<>>
       /\ EnteredSplit => outcome[fi] = Failed(OutputDirMissing)
  /\ (~dir0 /\ cli.force) =>
       /\ pc = "decode" => dirExists
       /\ EnteredSplit =>
            /\ outcome[fi].err # OutputDirMissing
            /\ dirExists \/ outcome[fi] = Failed(IoErr("create_dir_all", -1))

C10_Witness ==
  /\ ~dir0 /\ ~cli.force
  /\ EnteredSplit
  /\ outcome[fi] = Failed(OutputDirMissing)

\* the input files the run loop has left with a given kind of result
FilesWith(kind) == { i \in 1..Len(outcome) : outcome[i].kind = kind }

\* C11: a per-file error never stops the run over the input files: the loop
\* leaves every file in order and ends only after the last one; total_files
\* counts exactly the files whose split returned Ok and total_triples their
\* records (all the records of those files), errors counts the files that
\* failed, and the run exits with status 2 if and only if a file failed
\* (else 0).
C11_PerFileErrorsDoNotStopRun ==
  /\ pc \in {"resolve", "count", "prepare", "decode"} => Len(outcome) = fi - 1
  /\ pc = "done" => Len(outcome) = Len(files)
  /\ total_files = Cardinality(FilesWith("Ok"))
  /\ total_triples = SumSeq([i \in 1..Len(outcome) |-> outcome[i].n])
  /\ \A i \in FilesWith("Ok") : outcome[i].n = Len(files[i].recs)
  /\ errors = Cardinality(FilesWith("Err"))
  /\ pc = "done" =>
       /\ ExitStatus \in {0, 2}
       /\ ExitStatus = 2 <=> FilesWith("Err") # {}

C11_Witness ==
  /\ pc = "done"
  /\ Len(files) = 2
  /\ outcome[1].kind = "Err"
  /\ outcome[2].kind = "Ok" /\ outcome[2].n = 2
  /\ total_files = 1 /\ total_triples = 2 /\ errors = 1
  /\ ExitStatus = 2

\* file-count mode with a requested count f >= 1
FileCountMode == cli.file_count.some /\ cli.file_count.v >= 1

\* C12: in file-count mode with f >= 1 and an input of N < f records, the
\* chunk size derived after the counting pass is 1, a successful split
\* writes exactly N chunk files (indices 0..N-1, none for N = 0) of one
\* record each, and no chunk write is ever given an empty batch.
C12_FewerRecordsThanFiles ==
  (FileCountMode /\ NRecords < cli.file_count.v) =>
    /\ pc \in {"prepare", "decode"} => chunk_size = 1
    /\ SplitOk =>
         /\ chunk_size = 1
         /\ Cardinality(RunFiles) = NRecords
         /\ RunFiles = { ChunkFile(i) : i \in 0..(NRecords - 1) }
         /\ \A q \in RunFiles : disk[q].complete /\ RecordCount(fmt, disk[q]) = 1
    /\ \A i \in 1..Len(attempts) : attempts[i].batch # <<>>

C12_Witness ==
  /\ SplitOk
  /\ cli.file_count.some /\ cli.file_count.v = 3
  /\ NRecords = 2
  /\ chunk_size = 1
  /\ Cardinality(RunFiles) = 2

\* C13: for every record count N and requested file count f >= 1, the
\* ceiling division of file-count mode never overflows the machine word, and
\* the chunk size it yields is max(1, ceil(N/f)).
C13_ChunkSizeNeverOverflows ==
  /\ pc # "panic"
  /\ (FileCountMode /\ pc \in {"prepare", "decode"}) =>
       /\ \A o \in DerivedChunkSize(NRecords, cli.file_count.v) : ~o.overflow
       /\ chunk_size = Max({1, CeilDiv(NRecords, cli.file_count.v)})

\* C14: during the split of an input file with chunk size s >= 1 the chunk
\* buffer holds at most s records, also in every state after a failed flush.
C14_BoundedBuffer ==
  (pc = "decode" /\ chunk_size >= 1) => Len(triples) <= chunk_size

ChunkOf(recs, s, i) == SubSeq(recs, i * s + 1, Min({(i + 1) * s, Len(recs)}))

\* the paths the current invocation has tried to write
AttemptedPaths == { ChunkFile(attempts[i].idx) : i \in 1..Len(attempts) }

\* C16: a successful re-run with force over the output of an earlier
\* invocation leaves, at every chunk index below the new chunk count, exactly
\* the encoding of the new split's chunk of that index, with nothing of the
\* earlier content; after an earlier successful split with the same chunk
\* size the directory holds the same files with the same contents as before.
C16_ForceRerunOverwrites ==
  (earlier.ran /\ cli.force /\ SplitOk) =>
    LET k == CeilDiv(NRecords, chunk_size) IN
      /\ RunFiles = { ChunkFile(i) : i \in 0..(k - 1) }
      /\ \A i \in 0..(k - 1) :
           disk[ChunkFile(i)] =
             Content(Encode(fmt, ChunkOf(file.recs, chunk_size, i)), TRUE)
      /\ (earlier.ok /\ earlier.chunk_size = chunk_size) =>
           /\ DOMAIN disk = DOMAIN disk0
           /\ \A q \in DOMAIN disk :
                /\ disk[q].data = disk0[q].data
                /\ disk[q].complete = disk0[q].complete

C16_Witness ==
  /\ earlier.ran /\ earlier.ok /\ earlier.chunk_size = 1
  /\ cli.force /\ SplitOk
  /\ chunk_size = 2 /\ NRecords = 3
  /\ disk0[ChunkFile(0)].data # disk[ChunkFile(0)].data
  /\ RecordCount(fmt, disk[ChunkFile(0)]) = 2

\* C17: an invocation never removes a file, and it leaves alone every file
\* whose path it does not write; so after a successful re-run with force and
\* a larger chunk size the earlier chunk files with an index at or above the
\* new chunk count are still there with their earlier contents.
C17_StaleChunksUntouched ==
  /\ DOMAIN disk0 \subseteq DOMAIN disk
  /\ \A q \in DOMAIN disk0 : q \notin AttemptedPaths => disk[q] = disk0[q]
  /\ (earlier.ran /\ earlier.ok /\ cli.force /\ SplitOk
        /\ chunk_size > earlier.chunk_size) =>
       \A i \in 0..NRecords :
         (i >= CeilDiv(NRecords, chunk_size) /\ Exists(disk0, ChunkFile(i))) =>
           /\ Exists(disk, ChunkFile(i))
           /\ disk[ChunkFile(i)] = disk0[ChunkFile(i)]

C17_Witness ==
  /\ earlier.ran /\ earlier.ok /\ earlier.chunk_size = 1
  /\ cli.force /\ SplitOk
  /\ chunk_size = 3 /\ NRecords = 3
  /\ Cardinality(RunFiles) = 1
  /\ Exists(disk, ChunkFile(2)) /\ disk[ChunkFile(2)].old
  /\ RecordCount(fmt, disk[ChunkFile(2)]) = 1

\* the number a sequence of decimal digits denotes
RECURSIVE DecimalValue(_)
DecimalValue(d) ==
  IF d = <<>> THEN 0 ELSE 10 * DecimalValue(SubSeq(d, 1, Len(d) - 1)) + d[Len(d)]

\* the extension of the chunk files of an input with extension e
CanonicalExt(e) ==
  CASE e \in {"ttl", "TTL"} -> "ttl"
    [] e \in {"nt", "NT"} -> "nt"
    [] e \in {"nq", "nquads"} -> "nq"
    [] e = "trig" -> "trig"
    [] e \in {"rdf", "owl", "xml"} -> "rdf"
    [] e \in {"jsonld", "json-ld", "json"} -> "jsonld"

\* C18: every chunk file the split creates is named by the input's stem,
\* the chunk index as four decimal digits (zero padded) and the canonical
\* extension of the input's format, whatever variant of the extension the
\* input has; each successfully written chunk has the file of its index.
C18_ChunkFileNames ==
  /\ \A q \in RunFiles :
       /\ q.stem = file.stem
       /\ q.ext = CanonicalExt(file.ext)
       /\ Len(q.index) = 4
       /\ \A j \in 1..4 : q.index[j] \in 0..9
       /\ \E i \in 1..Len(attempts) : DecimalValue(q.index) = attempts[i].idx
  /\ \A i \in 1..Len(attempts) :
       IsOk(attempts[i]) =>
         \E q \in RunFiles : DecimalValue(q.index) = attempts[i].idx

C18_Witness ==
  /\ file.ext = "owl"
  /\ SplitOk
  /\ RunFiles = { [stem |-> "data", index |-> <<0, 0, 0, 0>>, ext |-> "rdf"],
                  [stem |-> "data", index |-> <<0, 0, 0, 1>>, ext |-> "rdf"] }

\* the input files with an unrecognised extension
Unrecognised == { i \in 1..Len(files) : from_path(files[i].ext) = None }

\* C19: an input file with an unrecognised extension is skipped: the run
\* loop is never in the counting pass or in the split for it, the step that
\* leaves it changes neither the output directory nor the error count nor
\* the totals, and a run over unrecognised inputs only ends with status 0.
C19_UnrecognisedSkipped ==
  /\ [](/\ fmt = None => pc \in {"resolve", "done"}
        /\ \A i \in Unrecognised : i <= Len(outcome) => outcome[i] = Skipped
        /\ (pc = "done" /\ Unrecognised = 1..Len(files)) =>
             /\ ExitStatus = 0
             /\ errors = 0 /\ total_files = 0
             /\ disk = disk0 /\ dirExists = dir0)
  /\ [][(pc = "resolve" /\ fmt = None) =>
          /\ outcome' = Append(outcome, Skipped)
          /\ UNCHANGED <<disk, dirExists, errors, total_files, total_triples,
                         counted, parsed, attempts, triples>>]_vars

C19_Witness ==
  /\ pc = "done"
  /\ Len(files) = 2
  /\ Unrecognised = {1}
  /\ outcome[1] = Skipped
  /\ outcome[2].kind = "Ok"
  /\ errors = 0 /\ total_files = 1
  /\ ExitStatus = 0

FmtOf(j) == from_path(files[j].ext)

\* the chunk paths of input file j that a successful split of it writes
PathsOf(j, s) ==
  { chunk_path(files[j].stem, FmtOf(j), i) :
      i \in 0..(CeilDiv(Len(files[j].recs), s) - 1) }

\* C21: the input files are processed one after another: while the run is
\* at file fi every earlier file has its result, and with a fixed chunk
\* size every chunk file of an earlier file whose split succeeded is on
\* disk; a step changes files only while the current file is being decoded,
\* and only chunk paths of that file; each split starts with chunk index 0,
\* an empty buffer, total 0 and no captured error.
C21_OneFileAtATime ==
  /\ [](/\ pc \in {"resolve", "count", "prepare", "decode"} => Len(outcome) = fi - 1
        /\ (cli.chunk_size.some /\ cli.chunk_size.v >= 1) =>
             \A j \in FilesWith("Ok") :
               \A q \in PathsOf(j, cli.chunk_size.v) : Exists(disk, q) /\ ~disk[q].old)
  /\ [][/\ disk' # disk =>
            /\ pc = "decode"
            /\ \A q \in DOMAIN disk' :
                 (q \notin DOMAIN disk \/ disk'[q] # disk[q]) => q = ChunkFile(chunk)
        /\ parsed' # parsed => pc = "decode" \/ pc' = "decode"
        /\ (pc = "prepare" /\ pc' = "decode") =>
            (chunk' = 0 /\ triples' = <<>> /\ total' = 0 /\ parsed' = 0
               /\ flush_err' = NoErr)]_vars

C21_Witness ==
  /\ Len(files) = 2
  /\ fi = 2
  /\ pc = "decode"
  /\ parsed = 0 /\ chunk = 0 /\ triples = <<>>
  /\ outcome[1].kind = "Ok" /\ outcome[1].n = 2
  /\ cli.chunk_size.some /\ cli.chunk_size.v = 1
  /\ Cardinality(DOMAIN disk) = 2

\* the batches of the successful chunk writes, in order
SucceededBatches == [i \in 1..Len(Succeeded) |-> Succeeded[i].batch]

C24_FailedFlushKeepsWriterState ==
  [][(pc = "decode" /\ Len(attempts') = Len(attempts) + 1
       /\ IsFailed(attempts'[Len(attempts')])) =>
       IF attempts'[Len(attempts')].final
         THEN UNCHANGED <<triples, chunk, total, flush_err>>
         ELSE /\ triples' = attempts'[Len(attempts')].batch
              /\ triples' = Append(triples, file.recs[parsed + 1])
              /\ chunk' = chunk
              /\ total' = total
              /\ flush_err' = attempts'[Len(attempts')].err
              /\ pc' = "decode"]_vars

C24_Witness ==
  /\ pc = "decode"
  /\ Len(attempts) = 2
  /\ IsOk(attempts[1]) /\ IsFailed(attempts[2])
  /\ triples = attempts[2].batch
  /\ chunk = 1 /\ total = Len(attempts[1].batch)
  /\ flush_err = attempts[2].err

\* C30: within one run every chunk path that exists when the current input
\* file first writes to it was already there before the run: it was not
\* created for another input file of the same run.  (The entries of `files`
\* are distinct paths, expand_inputs removes repeated ones; two entries with
\* one stem are files of different directories.)
C30_ChunkPathsDisjoint ==
  pc = "decode" =>
    \A i \in 1..Len(attempts) :
      (/\ attempts[i].existed
       /\ \A k \in 1..(i - 1) : attempts[k].idx # attempts[i].idx)
        => ChunkFile(attempts[i].idx) \in DOMAIN disk0

\* C25: the split of one file terminates: from every state of the decode the
\* run reaches the file's result, Ok with the total of the records written
\* or an error; meanwhile the chunk writer has made at most one flush
\* attempt per delivered record and at most one remainder flush, and a
\* successful in-stream flush leaves the empty buffer to accumulate into.
C25_SplitTerminates ==
  /\ (pc = "decode") ~>
       (/\ pc = "done"
        /\ Len(outcome) = 1
        /\ outcome[1].kind \in {"Ok", "Err"}
        /\ outcome[1].kind = "Ok" => outcome[1].n = total)
  /\ [](/\ Len(attempts) <= parsed + 1
        /\ Cardinality({ i \in 1..Len(attempts) : ~attempts[i].final }) <= parsed
        /\ Cardinality({ i \in 1..Len(attempts) : attempts[i].final }) <= 1
        /\ \A i \in 1..Len(attempts) :
             attempts[i].final => i = Len(attempts) /\ pc = "done")
  /\ [][(pc = "decode" /\ Len(attempts') = Len(attempts) + 1
          /\ ~attempts'[Len(attempts')].final
          /\ IsOk(attempts'[Len(attempts')]))
         => triples' = <<>> /\ pc' = "decode"]_vars

\* the split of three records with chunk size 2 is done after one in-stream
\* flush and the remainder flush
C25_Witness ==
  /\ pc = "done"
  /\ parsed = 3
  /\ chunk_size = 2
  /\ Len(attempts) = 2
  /\ ~attempts[1].final
  /\ attempts[2].final
  /\ outcome = <<Ok(3)>>
  /\ total = 3

\* terms of the line syntaxes
IsIri(t) == try_strip_angles(t).some

IsBlank(t) == StartsWith(t, <<"_", ":">>)

IsLiteral(t) == StartsWith(t, <<Quote>>)

\* an N-Triples statement, which is also a Turtle statement and a TriG
\* statement of the default graph
ValidTripleLine(l) ==
  /\ Len(l) = 4
  /\ IsIri(l[1]) \/ IsBlank(l[1])
  /\ IsIri(l[2])
  /\ IsIri(l[3]) \/ IsBlank(l[3]) \/ IsLiteral(l[3])
  /\ l[4] = Dot

\* an N-Quads statement: the graph label, when there is one, follows the object
ValidQuadLine(l) ==
  \/ ValidTripleLine(l)
  \/ /\ Len(l) = 5
     /\ ValidTripleLine(<<l[1], l[2], l[3], l[5]>>)
     /\ IsIri(l[4]) \/ IsBlank(l[4])

\* the namespace prefixes the rdf:RDF start tag declares
DeclaredPrefixes == { <<"r", "d", "f">> }

NotNameChars == {Quote, "&", ":", "<", ">", "@", "^", "/", " "}

\* an XML qualified name whose prefix is declared
ValidElementName(name) ==
  LET c == Find(name, <<":">>) IN
    /\ c > 1
    /\ c < Len(name)
    /\ SubSeq(name, 1, c - 1) \in DeclaredPrefixes
    /\ \A i \in (c + 1)..Len(name) : name[i] \notin NotNameChars

\* a JSON string body: no raw quote, backslash or line break
ValidJsonString(v) == \A i \in 1..Len(v.s) : v.s[i] \notin {Quote, "\\", "\n"}

\* a node object: members with distinct keys, "@id" first, every other
\* member an array of value objects
ValidJsonNode(n) ==
  /\ n.t = "obj"
  /\ Len(n.items) >= 1
  /\ n.items[1].key = KId
  /\ ValidJsonString(n.items[1].val)
  /\ \A i, j \in 1..Len(n.items) : n.items[i].key = n.items[j].key => i = j
  /\ \A i \in 2..Len(n.items) :
       /\ n.items[i].val.t = "arr"
       /\ \A k \in 1..Len(n.items[i].val.items) :
            LET vo == n.items[i].val.items[k] IN
              /\ vo.t = "obj"
              /\ \A m \in 1..Len(vo.items) : ValidJsonString(vo.items[m].val)

\* the body between the fixed first and last lines of a chunk file is a
\* document of the syntax f
ValidDocument(f, data) ==
  CASE f \in {"NTriples", "Turtle", "TriG"} ->
         \A i \in 1..Len(data) : ValidTripleLine(data[i])
    [] f = "NQuads" -> \A i \in 1..Len(data) : ValidQuadLine(data[i])
    [] f = "RdfXml" -> \A i \in 1..Len(data) : ValidElementName(data[i].name)
    [] f = "JsonLd" -> \A i \in 1..Len(data) : ValidJsonNode(data[i])

\* C22: every chunk file written completely by this run is a valid document
\* of its output syntax.
C22_ChunksAreValidDocuments ==
  fmt # None =>
    \A q \in RunFiles : disk[q].complete => ValidDocument(fmt, disk[q].data)

\* the same for the syntaxes other than TriG and RDF/XML
C22_LineAndJsonChunksAreValid ==
  fmt \in {"NTriples", "Turtle", "NQuads", "JsonLd"} =>
    \A q \in RunFiles : disk[q].complete => ValidDocument(fmt, disk[q].data)

\* the records of batch b with subject s and predicate p
StatementsOf(b, s, p) ==
  { k \in 1..Len(b) : b[k].subject = s /\ b[k].predicate = p }

SubjectsOf(b) == { b[k].subject : k \in 1..Len(b) }

PredicatesOf(b, s) == { b[k].predicate : k \in { j \in 1..Len(b) : b[j].subject = s } }

\* the node objects of doc whose "@id" is the written form of subject s
NodesOf(doc, s) ==
  { n \in 1..Len(doc) :
      doc[n].items[1] = Member(KId, JStr(json_escape(strip_angles(s)))) }

\* the members of node that are the array field of predicate p
FieldsOf(node, p) ==
  { m \in 2..Len(node.items) : node.items[m].key = json_escape(strip_angles(p)) }

\* C26: the JSON-LD chunk written for a batch holds exactly one node object
\* per distinct subject of the batch, in it exactly one array field per
\* distinct predicate of that subject, each array has one element per
\* statement of that subject and predicate, and the elements of all arrays
\* are as many as the records of the batch.
C26_JsonLdGroupsBySubjectAndPredicate ==
  fmt = "JsonLd" =>
    \A i \in 1..Len(attempts) :
      IsOk(attempts[i]) =>
        LET b   == attempts[i].batch
            doc == disk[ChunkFile(attempts[i].idx)].data
        IN /\ Len(doc) = Cardinality(SubjectsOf(b))
           /\ \A s \in SubjectsOf(b) :
                /\ Cardinality(NodesOf(doc, s)) = 1
                /\ LET node == doc[CHOOSE n \in NodesOf(doc, s) : TRUE] IN
                     /\ Len(node.items) = 1 + Cardinality(PredicatesOf(b, s))
                     /\ \A p \in PredicatesOf(b, s) :
                          /\ Cardinality(FieldsOf(node, p)) = 1
                          /\ \A m \in FieldsOf(node, p) :
                               Len(node.items[m].val.items) =
                                 Cardinality(StatementsOf(b, s, p))
           /\ RecordCount("JsonLd", [data |-> doc]) = Len(b)

\* a chunk of four records, one of them twice, of two subjects, one of which
\* has two predicates
C26_Witness ==
  /\ fmt = "JsonLd"
  /\ pc = "done"
  /\ SplitOk
  /\ \E i \in 1..Len(attempts) :
       /\ IsOk(attempts[i])
       /\ Len(attempts[i].batch) = 4
       /\ Cardinality({ attempts[i].batch[k] : k \in 1..4 }) = 3
       /\ Cardinality(SubjectsOf(attempts[i].batch)) = 2
       /\ \E s \in SubjectsOf(attempts[i].batch) :
            Cardinality(PredicatesOf(attempts[i].batch, s)) = 2
       /\ Len(disk[ChunkFile(attempts[i].idx)].data) = 2

\* the statements the conversion produces for the document of the run
Produced == jsonld_to_ntriples(file.doc)

\* the root node objects of a document
Roots(doc) == IF doc.t = "arr" THEN doc.items ELSE <<doc>>

HasKey(obj, k) == \E i \in 1..Len(obj.items) : obj.items[i].key = k

IsContainer(node) == node.t = "obj" /\ GetArr(node, KGraph).some

\* a node object that is no container and has a string identifier
IsPlainNode(node) ==
  node.t = "obj" /\ ~IsContainer(node) /\ GetStr(node, KId).some

HasLineBreak(str) == \E k \in 1..Len(str) : str[k] = "\n"

\* C27: the conversion emits one line per produced statement, so the
\* non-blank lines of the text, which count_records returns and the counting
\* pass arrives at, are as many as the statements; a root without an
\* identifier, a root that is no object, "@id" and "@context" give no line;
\* a single node with one string-valued predicate gives one statement.
C27_OneLinePerStatement ==
  "doc" \in DOMAIN file =>
    /\ CountLines(NtText(Produced)) = Len(Produced)
    /\ count_records(file) = Ok(Len(Produced))
    /\ (pc = "prepare" /\ cli.file_count.some) => counted = Len(Produced)
    /\ \A r \in 1..Len(Roots(file.doc)) :
         LET node == Roots(file.doc)[r] IN
           /\ (node.t # "obj" \/ (~IsContainer(node) /\ ~GetStr(node, KId).some))
                => extract_node(node, NoneOpt) = <<>>
           /\ IsPlainNode(node) =>
                \A m \in 1..Len(node.items) :
                  node.items[m].key \in {KId, KContext} =>
                    MemberLines(expand_iri(GetStr(node, KId).v), NoneOpt,
                                node.items[m]) = <<>>
    /\ file.doc = NodeA => Produced = << <<TA, TP, PlainLit(<<"v">>), Dot>> >>

\* the same for the documents none of whose produced terms holds a line break
C27_OneLinePerStatementWithoutBreak ==
  ("doc" \in DOMAIN file
     /\ \A i \in 1..Len(Produced) : \A k \in 1..Len(Produced[i]) :
          ~HasLineBreak(Produced[i][k]))
    => /\ CountLines(NtText(Produced)) = Len(Produced)
       /\ count_records(file) = Ok(Len(Produced))
       /\ (pc = "prepare" /\ cli.file_count.some) => counted = Len(Produced)

\* the statements one element of a field's value is to yield: one for a
\* nested object with an identifier or a value field, a string, a boolean
\* and a number, none for any other value
ElementYield(val) ==
  IF val.t = "obj" THEN (IF HasKey(val, KId) \/ HasKey(val, KValue) THEN 1 ELSE 0)
  ELSE IF val.t \in {"str", "bool", "num"} THEN 1
  ELSE 0

\* the same with a value field that has to hold a string
ElementYieldOfStrings(val) ==
  IF val.t = "obj"
    THEN (IF GetStr(val, KId).some \/ GetStr(val, KValue).some THEN 1 ELSE 0)
  ELSE IF val.t \in {"str", "bool", "num"} THEN 1
  ELSE 0

ElementsOf(v) == IF v.t = "arr" THEN v.items ELSE <<v>>

\* C28: every field of a node object yields, element by element of its
\* value, one statement for a reference, a value object, a string, a boolean
\* or a number and none for any other value.
C28_OneStatementPerConvertibleElement ==
  "doc" \in DOMAIN file =>
    \A r \in 1..Len(Roots(file.doc)) :
      LET node == Roots(file.doc)[r] IN
        IsPlainNode(node) =>
          \A m \in 1..Len(node.items) :
            node.items[m].key \notin {KId, KContext} =>
              LET els == ElementsOf(node.items[m].val) IN
                /\ \A e \in 1..Len(els) :
                     jsonld_value_to_nt_object(node.items[m].key, els[e]).some
                       <=> ElementYield(els[e]) = 1
                /\ Len(MemberLines(expand_iri(GetStr(node, KId).v), NoneOpt,
                                   node.items[m]))
                     = SumSeq([e \in 1..Len(els) |-> ElementYield(els[e])])

\* the same when only a string counts as the content of a value field
C28_OneStatementPerStringValuedElement ==
  "doc" \in DOMAIN file =>
    \A r \in 1..Len(Roots(file.doc)) :
      LET node == Roots(file.doc)[r] IN
        IsPlainNode(node) =>
          \A m \in 1..Len(node.items) :
            node.items[m].key \notin {KId, KContext} =>
              LET els == ElementsOf(node.items[m].val) IN
                Len(MemberLines(expand_iri(GetStr(node, KId).v), NoneOpt,
                                node.items[m]))
                  = SumSeq([e \in 1..Len(els) |-> ElementYieldOfStrings(els[e])])

\* the node objects inside a container, at any nesting depth, in document order
RECURSIVE InnerNodes(_)
InnerNodes(node) ==
  IF node.t # "obj" THEN <<>>
  ELSE IF IsContainer(node)
    THEN Flatten([i \in 1..Len(GetArr(node, KGraph).v) |->
                    InnerNodes(GetArr(node, KGraph).v[i])])
  ELSE <<node>>

\* the statements of the node objects inside a container, without a graph
InnerStatements(node) ==
  Flatten([i \in 1..Len(InnerNodes(node)) |->
             extract_node(InnerNodes(node)[i], NoneOpt)])

\* C29: the statements of a named-graph container are those of the node
\* objects inside it at any depth, each with the container's own identifier
\* as its graph name (without one when the container has no identifier); the
\* container's other fields give none.
C29_ContainerNamesTheGraph ==
  "doc" \in DOMAIN file =>
    \A r \in 1..Len(Roots(file.doc)) :
      LET node == Roots(file.doc)[r]
          out  == extract_node(node, NoneOpt)
      IN IsContainer(node) =>
           /\ Len(out) = Len(InnerStatements(node))
           /\ \A k \in 1..Len(out) :
                /\ SubSeq(out[k], 1, 3) = SubSeq(InnerStatements(node)[k], 1, 3)
                /\ IF GetStr(node, KId).some
                     THEN out[k] = SubSeq(out[k], 1, 3)
                                     \o <<expand_iri(GetStr(node, KId).v), Dot>>
                     ELSE out[k] = SubSeq(out[k], 1, 3) \o <<Dot>>

\* the same for the containers that hold no container
C29_FlatContainerNamesTheGraph ==
  "doc" \in DOMAIN file =>
    \A r \in 1..Len(Roots(file.doc)) :
      LET node == Roots(file.doc)[r]
          out  == extract_node(node, NoneOpt)
      IN (IsContainer(node)
            /\ \A i \in 1..Len(GetArr(node, KGraph).v) :
                 ~IsContainer(GetArr(node, KGraph).v[i])) =>
           /\ Len(out) = Len(InnerStatements(node))
           /\ \A k \in 1..Len(out) :
                IF GetStr(node, KId).some
                  THEN out[k] = SubSeq(InnerStatements(node)[k], 1, 3)
                                  \o <<expand_iri(GetStr(node, KId).v), Dot>>
                  ELSE out[k] = InnerStatements(node)[k]

\* the command line gives --chunk-size 0
ZeroChunkSize == cli.chunk_size = SomeNat(0)

\* C31: with an explicit chunk size of 0 the callback's test is true for
\* every buffer it sees, as with chunk size 1: every delivered record causes
\* a flush attempt; as long as no flush has failed each record is in a chunk
\* file of its own and the buffer is empty; a successful split of N records
\* has written N files and returns Ok(N); the decode always comes to an end.
C31_ChunkSizeZeroIsOne ==
  /\ []((ZeroChunkSize /\ pc \in {"decode", "done"}) =>
          /\ chunk_size = 0
          /\ ShouldFlush(Len(triples) + 1, 0) = ShouldFlush(Len(triples) + 1, 1)
          /\ FailedAttempts = {} =>
               /\ triples = <<>>
               /\ chunk = parsed
               /\ total = parsed
               /\ Len(attempts) = parsed
               /\ \A i \in 1..Len(attempts) :
                    /\ ~attempts[i].final
                    /\ attempts[i].batch = <<file.recs[i]>>
                    /\ disk[ChunkFile(i - 1)] =
                         Content(Encode(fmt, <<file.recs[i]>>), TRUE)
          /\ SplitOk =>
               /\ outcome[1] = Ok(NRecords)
               /\ Cardinality(RunFiles) = NRecords
          /\ (pc = "done" /\ dirExists /\ FailedAttempts = {} /\ ~file.malformed)
               => SplitOk)
  /\ [][(ZeroChunkSize /\ pc = "decode" /\ parsed' = parsed + 1)
          => Len(attempts') = Len(attempts) + 1]_vars
  /\ (ZeroChunkSize /\ pc = "decode") ~> (pc = "done")

\* three records split with --chunk-size 0 into three files
C31_Witness ==
  /\ ZeroChunkSize
  /\ SplitOk
  /\ NRecords = 3
  /\ outcome = <<Ok(3)>>
  /\ Cardinality(RunFiles) = 3
  /\ Len(attempts) = 3

\* C32: when a flush has failed during the split of the input file, the
\* error split_file returns is the error of the first failed flush.
C32_FirstFlushFailureIsReturned ==
  (pc = "done" /\ FailedAttempts # {}) =>
    outcome[fi] = Failed(attempts[Min(FailedAttempts)].err)

\* the same without "first": the error of some failed flush is returned,
\* unless the decoder met a syntax error
C32_SomeFlushFailureIsReturned ==
  (pc = "done" /\ FailedAttempts # {} /\ ~file.malformed) =>
    outcome[fi] = Failed(attempts[Max(FailedAttempts)].err)

\* C33: a flush that fails leaves the output directory as it was (no new or
\* changed file at the chunk's path), and no flush of a later invocation is
\* refused with OutputExists because of a file that a failed flush left
\* incomplete.
C33_FlushIsAllOrNothing ==
  /\ [][(Len(attempts') = Len(attempts) + 1 /\ IsFailed(attempts'[Len(attempts')]))
          => disk' = disk]_vars
  /\ [](\A i \in 1..Len(attempts) :
          (attempts[i].err.kind = "OutputExists" /\ pc = "decode")
            => disk[ChunkFile(attempts[i].idx)].complete)

\* the same for the flushes that check_overwrite refuses
C33_RefusedFlushLeavesDisk ==
  [][(Len(attempts') = Len(attempts) + 1
       /\ attempts'[Len(attempts')].err.kind = "OutputExists") => disk' = disk]_vars

\* the value objects with an "@value" member in the node objects of doc
ValueObjects(doc) ==
  SumSeq([n \in 1..Len(doc) |->
    SumSeq([m \in 1..Len(doc[n].items) |->
      IF doc[n].items[m].val.t # "arr" THEN 0
      ELSE Cardinality({ e \in 1..Len(doc[n].items[m].val.items) :
                           HasKey(doc[n].items[m].val.items[e], KValue) })])])

LiteralObjects(batch) ==
  Cardinality({ k \in 1..Len(batch) : IsLiteral(batch[k].object) })

\* C34: in every RDF/XML and JSON-LD chunk written, an object is literal
\* text, or an "@value", only when the record's object is a quoted literal.
C34_ObjectKindIsKept ==
  \A i \in 1..Len(attempts) :
    (IsOk(attempts[i]) /\ pc = "decode" /\ fmt \in {"RdfXml", "JsonLd"}) =>
      LET b    == attempts[i].batch
          data == disk[ChunkFile(attempts[i].idx)].data
      IN /\ fmt = "RdfXml" =>
              \A k \in 1..Len(b) : data[k].text.some => IsLiteral(b[k].object)
         /\ fmt = "JsonLd" => ValueObjects(data) = LiteralObjects(b)

\* the same for the batches without a blank-node object
C34_KindIsKeptWithoutBlankObjects ==
  \A i \in 1..Len(attempts) :
    (IsOk(attempts[i]) /\ pc = "decode" /\ fmt \in {"RdfXml", "JsonLd"}
       /\ \A k \in 1..Len(attempts[i].batch) : ~IsBlank(attempts[i].batch[k].object)) =>
      LET b    == attempts[i].batch
          data == disk[ChunkFile(attempts[i].idx)].data
      IN /\ fmt = "RdfXml" =>
              \A k \in 1..Len(b) : data[k].text.some <=> IsLiteral(b[k].object)
         /\ fmt = "JsonLd" => ValueObjects(data) = LiteralObjects(b)

\* C35: when the counting pass of a file has returned Ok(N), the split of
\* the same file decodes exactly N records and does not end in a decode
\* error.
C35_CountAgreesWithSplit ==
  (/\ pc = "done"
   /\ fmt # None
   /\ cli.file_count.some
   /\ cli.file_count.v >= 1
   /\ count_records(file).kind = "Ok"
   /\ dirExists) =>
     /\ parsed = count_records(file).n
     /\ outcome[fi] # Failed(ParseErr)

\* the same for the syntaxes that are counted with their own decoder
C35_DecoderCountAgreesWithSplit ==
  (/\ pc = "done"
   /\ fmt \notin {None, "JsonLd"}
   /\ cli.file_count.some
   /\ cli.file_count.v >= 1
   /\ count_records(file).kind = "Ok"
   /\ dirExists) =>
     /\ parsed = count_records(file).n
     /\ outcome[fi] # Failed(ParseErr)

====
